---- MODULE Spec2Model ----
(***************************************************************************)
(* Model of the authentication / session core of the cashplit mobile       *)
(* client: src/context/AuthContext.tsx (AuthProvider) and the push         *)
(* registration it starts, src/services/notifications.ts.                  *)
(*                                                                         *)
(* Granularity.  JavaScript runs each callback to completion, so the code  *)
(* between two awaits is one atomic step.  Every await on a native or      *)
(* network call is split in two: the call settling in the outside world    *)
(* (the storage write lands, the server answers) and the continuation of   *)
(* the async function, which runs later, after whatever other callbacks    *)
(* were queued before it.  Nothing in AuthProvider serialises its          *)
(* operations, so any number of them may be in flight at once.             *)
(***************************************************************************)
EXTENDS Naturals, Sequences, FiniteSets

VARIABLES
    storage,    \* the value SecureStore holds under USER_KEY
    user,       \* React state `user`: None or Some(User)
    boundId,    \* argument of the latest api.setUserId call (Null before any)
    isLoading,  \* React state `isLoading`
    boot,       \* position of loadStoredUser, started by the mount effect
    calls,      \* number of calls of public operations made so far
    ops,        \* calls of signIn .. signOut that have not returned yet, oldest first
    regs,       \* calls of registerForPushNotificationsAsync that have not settled
    last        \* the call that returned, or the upload that was sent, in the
                \* step just taken; None after any other step

vars == <<storage, user, boundId, isLoading, boot, calls, ops, regs, last>>

----------------------------------------------------------------------------
(* Bounds of the model.                                                    *)

\* calls of public operations made in one process lifetime; they may all
\* be in flight at the same time
MaxCalls == 2

----------------------------------------------------------------------------
(* JavaScript values.                                                      *)

Null == "null"
Undefined == "undefined"

None == <<>>
Some(x) == <<x>>
IsSome(o) == o # <<>>
The(o) == o[1]

\* interface User, AuthContext.tsx:8-12
UserA == [id |-> "1", name |-> "A", email |-> "a@x.com"]
UserB == [id |-> "2", name |-> "B", email |-> "b@x.com"]
\* the user records the sign-in endpoint can answer with
ServerUsers == {UserA, UserB}

\* the user records the Google exchange can answer with
GoogleUsers == {UserB}

\* the profiles a caller submits to signUp (name and email of the form)
SignUpForms == {[name |-> "B", email |-> "b@x.com"]}

\* the userId values the sign-up endpoint answers with
ServerUserIds == {"2"}

UserKeys == <<"id", "name", "email">>

----------------------------------------------------------------------------
(* JSON text of an object: the sequence of its key/value members.          *)

Member(k, v) == [k |-> k, v |-> v]

\* JSON.stringify of an object {id, name, email}: members whose value is
\* undefined are left out, the others appear in declaration order.
RECURSIVE StringifyFrom(_, _)
StringifyFrom(u, i) ==
    IF i > Len(UserKeys) THEN <<>>
    ELSE LET k == UserKeys[i]
         IN  (IF u[k] = Undefined THEN <<>> ELSE <<Member(k, u[k])>>)
             \o StringifyFrom(u, i + 1)

\* a serialisation that keeps the id alone
JSONstringifyIdOnly(u) == [wellFormed |-> TRUE, members |-> <<Member("id", u.id)>>]

JSONstringify(u) == [wellFormed |-> TRUE, members |-> StringifyFrom(u, 1)]

\* a stored string that is not JSON
Garbage == [wellFormed |-> FALSE, members |-> <<>>]

\* JSON.parse throws on text that is not JSON
ParseThrows(text) == ~text.wellFormed

\* reading property k of the parsed object: the member's value, or undefined
Prop(text, k) ==
    IF \E i \in DOMAIN text.members : text.members[i].k = k
    THEN text.members[CHOOSE i \in DOMAIN text.members : text.members[i].k = k].v
    ELSE Undefined

\* JSON.parse of a well-formed text, read as a User
JSONparse(text) == [k \in {"id", "name", "email"} |-> Prop(text, k)]

\* what SecureStore.getItemAsync resolves to: None (null) or Some(string)
StoredValues == {None, Some(Garbage), Some(JSONstringify(UserA))}

----------------------------------------------------------------------------
(* Outcomes of the awaited calls.                                          *)

\* statusCodes of @react-native-google-signin, AuthContext.tsx:125-129
SIGN_IN_CANCELLED == "SIGN_IN_CANCELLED"
IN_PROGRESS == "IN_PROGRESS"
PLAY_SERVICES_NOT_AVAILABLE == "PLAY_SERVICES_NOT_AVAILABLE"

\* a thrown value as the catch blocks read it: error.code and
\* error.response?.data?.message
Thrown(code, message) == [code |-> code, message |-> message]

ServerMessage == "Account rejected"

\* a rejected request: with a server-supplied message, or a transport error
HttpErrors == {Thrown(Undefined, ServerMessage), Thrown(Undefined, Undefined)}

\* what the Google SDK rejects with
GoogleErrors ==
    {Thrown(c, Undefined) :
        c \in {SIGN_IN_CANCELLED, IN_PROGRESS, PLAY_SERVICES_NOT_AVAILABLE, Undefined}}

\* a rejected SecureStore call: a native error, neither code nor response
StorageError == Thrown(Undefined, Undefined)

\* error.response?.data?.message || fallback
MessageOr(error, fallback) ==
    IF error.message = Undefined THEN fallback ELSE error.message

AuthResult(success, error) == [success |-> success, error |-> error]

\* catch block of signIn, AuthContext.tsx:86-92
signInCatch(error) == AuthResult(FALSE, MessageOr(error, "Sign in failed"))

\* a catch block of signInWithGoogle that does not look at error.code
signInWithGoogleCatchNoCodes(error) ==
    AuthResult(FALSE, MessageOr(error, "Google sign-in failed"))

\* catch block of signInWithGoogle, AuthContext.tsx:123-136
signInWithGoogleCatch(error) ==
    IF error.code = SIGN_IN_CANCELLED THEN AuthResult(FALSE, "Sign in cancelled")
    ELSE IF error.code = IN_PROGRESS THEN AuthResult(FALSE, "Sign in in progress")
    ELSE IF error.code = PLAY_SERVICES_NOT_AVAILABLE
         THEN AuthResult(FALSE, "Play services not available")
    ELSE AuthResult(FALSE, MessageOr(error, "Google sign-in failed"))

\* a catch block of signUp that drops the server's message
signUpCatchGeneric(error) == AuthResult(FALSE, "Sign up failed")

\* catch block of signUp, AuthContext.tsx:159-165
signUpCatch(error) == AuthResult(FALSE, MessageOr(error, "Sign up failed"))

\* a catch block of forgotPassword that rethrows: the promise of the call
\* rejects with the error instead of resolving to a result
forgotPasswordRethrows(error) == [rejected |-> error]

\* catch block of forgotPassword, AuthContext.tsx:172-178
forgotPasswordCatch(error) ==
    AuthResult(FALSE, MessageOr(error, "Failed to send reset email"))

\* the catch block of the function an operation runs in
Catch(kind, error) ==
    CASE kind = "signIn" -> signInCatch(error)
      [] kind = "signInWithGoogle" -> signInWithGoogleCatch(error)
      [] kind = "signUp" -> signUpCatch(error)
      [] kind = "forgotPassword" -> forgotPasswordCatch(error)

\* the result of a branch that finds no user record in the response
NoUserResult(kind) ==
    CASE kind = "signIn" -> AuthResult(FALSE, "Invalid credentials")
      [] kind = "signInWithGoogle" -> AuthResult(FALSE, "Google sign-in failed on server")
      [] kind = "signUp" -> AuthResult(FALSE, "Registration failed")

Success == AuthResult(TRUE, Undefined)

\* signOut and loadStoredUser return nothing
Void == AuthResult(TRUE, Undefined)

----------------------------------------------------------------------------
(* What the code does to the user and the bound id.                        *)

\* const userData: User = {id: response.data.user.id, name: ..., email: ...}
UserData(id, name, email) == [id |-> id, name |-> name, email |-> email]

\* Establish with the api.setUserId call left out
EstablishNoBind(userData) == [user |-> Some(userData), boundId |-> boundId]

\* api.setUserId(userData.id); setUser(userData)   (after the write resolved)
Establish(userData) == [user |-> Some(userData), boundId |-> userData.id]

\* api.setUserId(null); setUser(null)   (after the delete resolved)
Clear == [user |-> None, boundId |-> Null]

\* loadStoredUser with the api.setUserId call left out
loadStoredUserNoBind(read, cur) ==
    IF read.rejected \/ ~IsSome(read.value) THEN cur
    ELSE IF ParseThrows(The(read.value)) THEN cur
    ELSE [user |-> Some(JSONparse(The(read.value))), boundId |-> cur.boundId]

\* loadStoredUser with the setUser call left out
loadStoredUserNoSetUser(read, cur) ==
    IF read.rejected \/ ~IsSome(read.value) THEN cur
    ELSE IF ParseThrows(The(read.value)) THEN cur
    ELSE [user |-> cur.user, boundId |-> JSONparse(The(read.value)).id]

\* body of loadStoredUser's try block once getItemAsync has settled: `read` is
\* [rejected, value]; `cur` the user and bound id at that moment
loadStoredUser(read, cur) ==
    IF read.rejected THEN cur
    ELSE IF ~IsSome(read.value) THEN cur
    ELSE IF ParseThrows(The(read.value)) THEN cur
    ELSE LET userData == JSONparse(The(read.value))
         IN  [user |-> Some(userData), boundId |-> userData.id]

\* a loadStoredUser whose setIsLoading(false) is the last statement of the
\* try block
loadStoredUserIsLoadingInTry(read, cur) ==
    IF read.rejected THEN cur
    ELSE IF IsSome(read.value) /\ ParseThrows(The(read.value)) THEN cur
    ELSE FALSE

\* isLoading after loadStoredUser: the finally block's setIsLoading(false)
\* runs whether the try block completed or the catch block ran
loadStoredUserIsLoading(read, cur) == FALSE

\* the operations that establish a session
EstablishKinds == {"signIn", "signInWithGoogle", "signUp"}

----------------------------------------------------------------------------
(* Push registration: src/services/notifications.ts and the effect of      *)
(* AuthContext.tsx:204-215.                                                *)

Granted == "granted"

\* an awaited call of expo-notifications that rejects
Rejects == "rejects"

ExpoPushToken == "ExponentPushToken[x]"

\* what a registration finds: Platform.OS, Device.isDevice, the answers of
\* setNotificationChannelAsync, getPermissionsAsync, requestPermissionsAsync
\* and getExpoPushTokenAsync, and the two places a projectId is looked up
UsualEnv ==
    [os |-> "ios", channel |-> "ok", isDevice |-> TRUE,
     existingStatus |-> Granted, requestedStatus |-> Granted,
     expoConfigProjectId |-> "project", easConfigProjectId |-> Undefined,
     expoPushToken |-> ExpoPushToken]

RegistrationEnvs ==
    {UsualEnv,
     [UsualEnv EXCEPT !.os = "android"],
     [UsualEnv EXCEPT !.os = "android", !.channel = Rejects],
     [UsualEnv EXCEPT !.isDevice = FALSE],
     [UsualEnv EXCEPT !.existingStatus = "undetermined"],
     [UsualEnv EXCEPT !.existingStatus = "denied", !.requestedStatus = "denied"],
     [UsualEnv EXCEPT !.existingStatus = Rejects],
     [UsualEnv EXCEPT !.existingStatus = "undetermined", !.requestedStatus = Rejects],
     [UsualEnv EXCEPT !.expoConfigProjectId = Undefined, !.easConfigProjectId = "project"],
     [UsualEnv EXCEPT !.expoConfigProjectId = Undefined],
     [UsualEnv EXCEPT !.expoPushToken = Rejects]}

\* how the promise of an async function settles
Resolved(value) == [rejected |-> FALSE, value |-> value]
Rejected == [rejected |-> TRUE, value |-> Undefined]

\* Constants.expoConfig?.extra?.eas?.projectId ?? Constants.easConfig?.projectId
ProjectId(env) ==
    IF env.expoConfigProjectId # Undefined THEN env.expoConfigProjectId
    ELSE env.easConfigProjectId

\* `!x` of JavaScript for the values a projectId can take
Falsy(x) == x \in {Undefined, ""}

\* a run of registerForPushNotificationsAsync: the calls of
\* expo-notifications it has made, in order, and how its promise settles
Run(log, settled) == [calls |-> log, settled |-> settled]

\* notifications.ts:40-47: getExpoPushTokenAsync is awaited inside a try
\* block whose catch only logs, so `token` stays undefined when it rejects
getExpoPushToken(env, log) ==
    LET made == Append(log, "getExpoPushTokenAsync")
    IN  IF env.expoPushToken = Rejects THEN Run(made, Resolved(Undefined))
        ELSE Run(made, Resolved(env.expoPushToken))

\* notifications.ts:25-47, once finalStatus is known
afterPermission(env, finalStatus, log) ==
    IF finalStatus # Granted THEN Run(log, Resolved(Undefined))
    ELSE IF Falsy(ProjectId(env)) THEN Run(log, Resolved(Undefined))
    ELSE getExpoPushToken(env, log)

\* a registration that requests the permission whatever the existing status
onDeviceAlwaysRequests(env, log) ==
    LET asked == Append(log, "getPermissionsAsync")
        requested == Append(asked, "requestPermissionsAsync")
    IN  IF env.existingStatus = Rejects THEN Run(asked, Rejected)
        ELSE IF env.requestedStatus = Rejects THEN Run(requested, Rejected)
        ELSE afterPermission(env, env.requestedStatus, requested)

\* notifications.ts:19-47, the branch of a physical device; the two
\* permission log are awaited outside any try block
onDevice(env, log) ==
    LET asked == Append(log, "getPermissionsAsync")
        requested == Append(asked, "requestPermissionsAsync")
    IN  IF env.existingStatus = Rejects THEN Run(asked, Rejected)
        ELSE IF env.existingStatus # Granted
             THEN IF env.requestedStatus = Rejects THEN Run(requested, Rejected)
                  ELSE afterPermission(env, env.requestedStatus, requested)
        ELSE afterPermission(env, env.existingStatus, asked)

\* notifications.ts:6-53 as a whole; setNotificationChannelAsync too is
\* awaited outside any try block
registrationRun(env) ==
    LET log == IF env.os = "android" THEN <<"setNotificationChannelAsync">>
                 ELSE <<>>
    IN  IF env.os = "android" /\ env.channel = Rejects THEN Run(log, Rejected)
        ELSE IF env.isDevice THEN onDevice(env, log)
        ELSE Run(log, Resolved(Undefined))

\* how the promise of registerForPushNotificationsAsync settles
registerForPushNotificationsAsync(env) == registrationRun(env).settled

\* the ways a registration can settle
RegistrationOutcomes == {registerForPushNotificationsAsync(env) : env \in RegistrationEnvs}

\* the .then callback of the effect, AuthContext.tsx:206-212: whether
\* api.updatePushToken(token) is called once the registration has settled
updatePushTokenCalled(settled) == ~settled.rejected /\ settled.value # Undefined

\* the promise the effect is left with, AuthContext.tsx:206-212: .then is
\* given one callback and no .catch follows, so a rejection of
\* registerForPushNotificationsAsync is handled by nothing
unhandledRejection(settled) == settled.rejected

\* everything a registration can find
AllEnvs ==
    [os : {"ios", "android"}, channel : {"ok", Rejects}, isDevice : BOOLEAN,
     existingStatus : {Granted, "denied", "undetermined", Rejects},
     requestedStatus : {Granted, "denied", Rejects},
     expoConfigProjectId : {"project", "", Undefined},
     easConfigProjectId : {"project", Undefined},
     expoPushToken : {ExpoPushToken, Rejects}]

\* an effect that registers after every change of `user`, to null as well
pushRegistrationEffectAlways(u, pending) ==
    Append(pending, [userId |-> IF IsSome(u) THEN The(u).id ELSE Null])

\* the effect of AuthContext.tsx:204-215, run after setUser(u) has changed
\* `user`: with a user it starts one registration, which joins the pending
\* ones carrying the id of the user it was started for
pushRegistrationEffect(u, pending) ==
    IF IsSome(u) THEN Append(pending, [userId |-> The(u).id]) ELSE pending

----------------------------------------------------------------------------
(* Calls in flight.                                                        *)

\* the class of an operation, for the record of what overlapped a call
Class(kind) == IF kind = "signOut" THEN "signOut" ELSE "other"

InFlight == {ops[i] : i \in DOMAIN ops}

\* the pieces of the session that the step being taken changes
ChangedNow ==
    (IF user' # user THEN {"user"} ELSE {})
    \cup (IF boundId' # boundId THEN {"boundId"} ELSE {})
    \cup (IF storage' # storage THEN {"storage"} ELSE {})

\* the number of registrations the step being taken starts
StartedNow == Len(regs') - Len(regs)

\* bookkeeping of the model, not program state: `preUser` is the user when
\* the call was made, `overlap` the classes of operation that were in
\* flight at any time during the call, `changed` the pieces of the session
\* the call's own steps have changed, `wrote` what the key held right after
\* the call's write resolved, `preempted` whether a signOut called after
\* this call has already cleared the session.  Of a call that has returned
\* `at` is the await it returned from and `thrown` the error its catch
\* block caught, if one ran, and `started` the number of push registrations
\* its last step started.
NewOp(kind, pc, form) ==
    [kind |-> kind, pc |-> pc, form |-> form, userData |-> None,
     preUser |-> user,
     overlap |-> {Class(o.kind) : o \in InFlight}
                    \cup (IF boot.pc = "done" THEN {} ELSE {"other"}),
     changed |-> {},
     wrote |-> None,
     preempted |-> FALSE,
     awaited |-> <<>>]

\* the model makes no more than MaxCalls calls
MayCall == calls < MaxCalls

\* a call is made: it joins the calls in flight
Call(kind, pc, form) ==
    /\ calls' = calls + 1
    /\ ops' = [i \in DOMAIN ops |-> [ops[i] EXCEPT !.overlap = @ \cup {Class(kind)}]]
                 \o <<NewOp(kind, pc, form)>>
    /\ boot' = IF boot.pc = "done" THEN boot
               ELSE [boot EXCEPT !.overlap = @ \cup {Class(kind)}]
    /\ last' = None
    /\ UNCHANGED <<storage, user, boundId, isLoading, regs>>

\* the calls in flight without the i-th
Without(i) == [j \in 1..(Len(ops) - 1) |-> IF j < i THEN ops[j] ELSE ops[j + 1]]

\* what is kept of a call that has returned
Returned(op, result) ==
    [kind |-> op.kind, at |-> op.pc, result |-> result, userData |-> op.userData,
     read |-> None, preUser |-> op.preUser, overlap |-> op.overlap,
     changed |-> op.changed \cup ChangedNow, preempted |-> op.preempted,
     thrown |-> None, started |-> StartedNow, form |-> op.form,
     body |-> None]

\* the async function of the i-th call returns `result` to its caller
Return(i, result) ==
    /\ ops' = Without(i)
    /\ last' = Some(Returned(ops[i], result))

\* the call the i-th call awaits rejects with `error`: the catch block of
\* its function runs and returns the failure result
Throw(i, error) ==
    /\ ops' = Without(i)
    /\ last' = Some([Returned(ops[i], Catch(ops[i].kind, error))
                        EXCEPT !.thrown = Some(error)])

\* the async function of the i-th call moves on to its next await
Goto(i, pc) ==
    /\ ops' = [ops EXCEPT ![i].pc = pc, ![i].changed = @ \cup ChangedNow,
                           ![i].awaited = Append(@, ops[i].pc)]
    /\ last' = None

----------------------------------------------------------------------------
(* loadStoredUser, AuthContext.tsx:51-64, started once by the mount effect *)
(* (AuthContext.tsx:40-49).                                                *)

\* SecureStore.getItemAsync(USER_KEY) settles: it resolves to the stored
\* value, or rejects
getItemAsync ==
    /\ boot.pc = "getItem"
    /\ \E rejected \in BOOLEAN :
          boot' = [boot EXCEPT !.pc = "resume",
                               !.read = [rejected |-> rejected,
                                         value |-> IF rejected THEN None ELSE storage]]
    /\ last' = None
    /\ UNCHANGED <<storage, user, boundId, isLoading, calls, ops, regs>>

NotRead == [rejected |-> FALSE, value |-> None]

\* whether loadStoredUser reaches its setUser(userData), AuthContext.tsx:54-56
loadStoredUserSetsUser(read) ==
    ~read.rejected /\ IsSome(read.value) /\ ~ParseThrows(The(read.value))

\* the rest of loadStoredUser: parse, setUser, api.setUserId, and the
\* finally block's setIsLoading(false); after a setUser the push
\* registration effect runs
loadStoredUserResume ==
    /\ boot.pc = "resume"
    /\ LET out == loadStoredUser(boot.read, [user |-> user, boundId |-> boundId])
       IN  /\ user' = out.user
           /\ boundId' = out.boundId
    /\ regs' = IF loadStoredUserSetsUser(boot.read)
               THEN pushRegistrationEffect(user', regs) ELSE regs
    /\ isLoading' = loadStoredUserIsLoading(boot.read, isLoading)
    /\ storage' = storage
    /\ boot' = [pc |-> "done", read |-> NotRead, overlap |-> {}]
    /\ last' = Some([kind |-> "loadStoredUser", at |-> "resume", result |-> Void,
                     userData |-> None, read |-> Some(boot.read), preUser |-> None,
                     overlap |-> boot.overlap, changed |-> ChangedNow,
                     preempted |-> FALSE, thrown |-> None,
                     started |-> StartedNow])
    /\ UNCHANGED <<calls, ops>>

----------------------------------------------------------------------------
(* The public operations are called.                                       *)

\* signIn(email, password): api.post('/api/auth/signin') is sent
signIn(email) == Call("signIn", "post", Some([email |-> email]))

\* the emails a caller can pass: none typed, or an address
Emails == {"", "a@x.com"}

\* the emails of well-formed submissions
TypedEmails == Emails \ {""}

signInCall ==
    /\ MayCall
    /\ \E email \in TypedEmails : signIn(email)

\* signIn called with whatever the caller passes
signInAnyEmail ==
    /\ MayCall
    /\ \E email \in Emails : signIn(email)

\* signInWithGoogle(): GoogleSignin.hasPlayServices() is started
signInWithGoogleCall ==
    /\ MayCall
    /\ Call("signInWithGoogle", "hasPlayServices", None)

\* signUp(data): api.post('/api/auth/signup', data) is sent
signUp(data) == Call("signUp", "post", Some(data))

signUpCall ==
    /\ MayCall
    /\ \E form \in SignUpForms : signUp(form)

\* signUp called with whatever the caller passes
signUpAnyEmail ==
    /\ MayCall
    /\ \E form \in SignUpForms, email \in Emails :
          signUp([form EXCEPT !.email = email])

\* forgotPassword(email): api.post('/api/auth/forgot-password') is sent
forgotPassword(email) == Call("forgotPassword", "post", Some([email |-> email]))

forgotPasswordCall ==
    /\ MayCall
    /\ \E email \in TypedEmails : forgotPassword(email)

\* the reset screen's handler (forgot-password.tsx:28-46): without an email
\* it sets its error and returns, otherwise it calls forgotPassword(email)
handleResetPassword ==
    /\ MayCall
    /\ \E email \in Emails :
          IF Falsy(email)
          THEN /\ last' = Some([kind |-> "handleResetPassword",
                                error |-> "Please enter your email address"])
               /\ UNCHANGED <<storage, user, boundId, isLoading, boot, calls,
                              ops, regs>>
          ELSE forgotPassword(email)

\* signOut(): SecureStore.deleteItemAsync(USER_KEY) is started
signOutCall ==
    /\ MayCall
    /\ Call("signOut", "deleteItem", None)

\* the steps below that touch neither the session nor loadStoredUser
SessionUntouched == UNCHANGED <<storage, user, boundId, isLoading, boot, calls, regs>>

----------------------------------------------------------------------------
(* signInWithGoogle before the exchange, AuthContext.tsx:97-103.           *)

\* await GoogleSignin.hasPlayServices() settles
hasPlayServices ==
    \E i \in DOMAIN ops :
       /\ ops[i].kind = "signInWithGoogle" /\ ops[i].pc = "hasPlayServices"
       /\ SessionUntouched
       /\ \/ Goto(i, "GoogleSignin.signIn")
          \/ \E e \in GoogleErrors : Throw(i, e)

\* what userInfo.data?.idToken can be: absent, empty, or a token
IdTokens == {Undefined, "", "idToken"}

\* a test that lets every idToken through
hasIdTokenAlways(idToken) == TRUE

\* the test `if (!idToken)` passes the idToken on
hasIdToken(idToken) == ~Falsy(idToken)

\* api.post('/api/auth/google', {idToken}) is sent
SendExchange(i, idToken) ==
    /\ ops' = [ops EXCEPT ![i].pc = "post", ![i].form = Some(idToken),
                           ![i].changed = @ \cup ChangedNow,
                           ![i].awaited = Append(@, ops[i].pc)]
    /\ last' = None

\* await GoogleSignin.signIn() settles; with an idToken the exchange request
\* is sent, without one the function returns
GoogleSigninSignIn ==
    \E i \in DOMAIN ops :
       /\ ops[i].kind = "signInWithGoogle" /\ ops[i].pc = "GoogleSignin.signIn"
       /\ SessionUntouched
       /\ \/ \E idToken \in IdTokens :
                IF hasIdToken(idToken)
                THEN SendExchange(i, idToken)
                ELSE Return(i, AuthResult(FALSE, "Failed to get ID token"))
          \/ \E e \in GoogleErrors : Throw(i, e)

----------------------------------------------------------------------------
(* The request of signIn / signInWithGoogle / signUp settles,              *)
(* AuthContext.tsx:69-78, 106-115, 141-151.                                *)

\* a copy of the response's record that forgets the email
signInUserDataNoEmail(responseUser) ==
    UserData(responseUser.id, responseUser.name, Undefined)

\* the userData each function builds from a response that carries a record
signInUserData(responseUser) ==
    UserData(responseUser.id, responseUser.name, responseUser.email)

\* a record that takes the name from the response, which carries none
signUpUserDataNoName(userId, data) == UserData(userId, Undefined, data.email)

signUpUserData(userId, data) == UserData(userId, data.name, data.email)

\* the response carries the record: userData is built and
\* SecureStore.setItemAsync(USER_KEY, JSON.stringify(userData)) is started
SendWrite(i, userData) ==
    /\ ops' = [ops EXCEPT ![i].pc = "setItem", ![i].userData = Some(userData)]
    /\ last' = None

\* await api.post('/api/auth/signin', ...) settles
signInPost ==
    \E i \in DOMAIN ops :
       /\ ops[i].kind = "signIn" /\ ops[i].pc = "post"
       /\ SessionUntouched
       /\ \/ \E u \in ServerUsers : SendWrite(i, signInUserData(u))
          \/ Return(i, NoUserResult("signIn"))
          \/ \E e \in HttpErrors : Throw(i, e)

\* await api.post('/api/auth/google', {idToken}) settles
signInWithGooglePost ==
    \E i \in DOMAIN ops :
       /\ ops[i].kind = "signInWithGoogle" /\ ops[i].pc = "post"
       /\ SessionUntouched
       /\ \/ \E u \in GoogleUsers : SendWrite(i, signInUserData(u))
          \/ Return(i, NoUserResult("signInWithGoogle"))
          \/ \E e \in HttpErrors : Throw(i, e)

\* await api.post('/api/auth/signup', data) settles
signUpPost ==
    \E i \in DOMAIN ops :
       /\ ops[i].kind = "signUp" /\ ops[i].pc = "post"
       /\ SessionUntouched
       /\ \/ \E id \in ServerUserIds : SendWrite(i, signUpUserData(id, The(ops[i].form)))
          \/ Return(i, NoUserResult("signUp"))
          \/ \E e \in HttpErrors : Throw(i, e)

----------------------------------------------------------------------------
(* The storage write and what follows it, AuthContext.tsx:78-82, 115-119,  *)
(* 151-155.                                                                *)

\* what the key holds once setItemAsync has settled
setItemAsyncValue(resolved, text, old) == IF resolved THEN Some(text) ELSE old

\* SecureStore.setItemAsync settles: the value is stored, or the call
\* rejects and the key keeps its value
setItemAsync ==
    \E i \in DOMAIN ops, resolved \in BOOLEAN :
       /\ ops[i].kind \in EstablishKinds /\ ops[i].pc = "setItem"
       /\ storage' = setItemAsyncValue(resolved, JSONstringify(The(ops[i].userData)), storage)
       /\ UNCHANGED <<user, boundId, isLoading, boot, calls, regs>>
       /\ ops' = [ops EXCEPT ![i].pc = IF resolved THEN "setItemResolved"
                                       ELSE "setItemRejected",
                              ![i].changed = @ \cup ChangedNow,
                              ![i].wrote = IF resolved THEN storage' ELSE None]
       /\ last' = None

\* after a resolved write: api.setUserId(userData.id); setUser(userData);
\* return {success: true}; the push registration effect runs for the new
\* user
EstablishResume ==
    \E i \in DOMAIN ops :
       /\ ops[i].kind \in EstablishKinds /\ ops[i].pc = "setItemResolved"
       /\ LET out == Establish(The(ops[i].userData))
          IN  /\ user' = out.user
              /\ boundId' = out.boundId
       /\ regs' = pushRegistrationEffect(user', regs)
       /\ UNCHANGED <<storage, isLoading, boot, calls>>
       /\ Return(i, Success)

\* a catch block that signs the user out when the write is rejected
WriteRejectedClears(cur) == Clear

\* what the catch block does to user and bound id after a rejected write
WriteRejected(cur) == cur

\* after a rejected write: the catch block returns a failure
EstablishCatch ==
    \E i \in DOMAIN ops :
       /\ ops[i].kind \in EstablishKinds /\ ops[i].pc = "setItemRejected"
       /\ LET out == WriteRejected([user |-> user, boundId |-> boundId])
          IN  /\ user' = out.user
              /\ boundId' = out.boundId
       /\ UNCHANGED <<storage, isLoading, boot, calls, regs>>
       /\ Throw(i, StorageError)

----------------------------------------------------------------------------
(* forgotPassword, AuthContext.tsx:168-179.                                *)

\* a forgotPassword that signs the user out
forgotPasswordClears(cur) == Clear

\* what forgotPassword does to user and bound id: neither branch calls
\* setUser or api.setUserId
forgotPasswordEffect(cur) == cur

\* the bodies a resolved forgot-password request can carry
ForgotPasswordBodies ==
    {[message |-> "Reset email sent"], [error |-> "No such account"]}

\* a result that is read from the body of the response
forgotPasswordResultFromBody(body) ==
    IF "error" \in DOMAIN body THEN AuthResult(FALSE, body.error) ELSE Success

\* the request resolved: return { success: true }
forgotPasswordResult(body) == Success

\* the function returns after a request that resolved with `body`
ReturnAfter(i, body) ==
    /\ ops' = Without(i)
    /\ last' = Some([Returned(ops[i], forgotPasswordResult(body))
                        EXCEPT !.body = Some(body)])

\* await api.post('/api/auth/forgot-password', {email}) settles
forgotPasswordPost ==
    \E i \in DOMAIN ops :
       /\ ops[i].kind = "forgotPassword" /\ ops[i].pc = "post"
       /\ LET out == forgotPasswordEffect([user |-> user, boundId |-> boundId])
          IN  /\ user' = out.user
              /\ boundId' = out.boundId
       /\ UNCHANGED <<storage, isLoading, boot, calls, regs>>
       /\ \/ \E body \in ForgotPasswordBodies : ReturnAfter(i, body)
          \/ \E e \in HttpErrors : Throw(i, e)

----------------------------------------------------------------------------
(* signOut, AuthContext.tsx:181-189.                                       *)

\* what the key holds once deleteItemAsync has settled
deleteItemAsyncValue(resolved, old) == IF resolved THEN None ELSE old

\* SecureStore.deleteItemAsync settles: the key is removed, or the call
\* rejects and the key keeps its value
deleteItemAsync ==
    \E i \in DOMAIN ops, resolved \in BOOLEAN :
       /\ ops[i].kind = "signOut" /\ ops[i].pc = "deleteItem"
       /\ storage' = deleteItemAsyncValue(resolved, storage)
       /\ UNCHANGED <<user, boundId, isLoading, boot, calls, regs>>
       /\ Goto(i, IF resolved THEN "deleteItemResolved" ELSE "deleteItemRejected")

\* a signOut that clears the bound id and the user before it deletes
signOutClearsFirst(resolved, cur) == Clear

\* user and bound id once signOut has run to its end
signOutEffect(resolved, cur) == IF resolved THEN Clear ELSE cur

\* the rest of signOut: after a resolved delete api.setUserId(null) and
\* setUser(null), and the push registration effect runs for no user; after
\* a rejected one the catch block only logs.  A signOut that cleared the
\* session marks the establish calls it overtook.
signOutResume ==
    \E i \in DOMAIN ops :
       /\ ops[i].kind = "signOut"
       /\ ops[i].pc \in {"deleteItemResolved", "deleteItemRejected"}
       /\ LET resolved == ops[i].pc = "deleteItemResolved"
              out == signOutEffect(resolved, [user |-> user, boundId |-> boundId])
              rest == Without(i)
          IN  /\ user' = out.user
              /\ boundId' = out.boundId
              /\ regs' = IF resolved THEN pushRegistrationEffect(user', regs)
                         ELSE regs
              /\ ops' = [j \in DOMAIN rest |->
                           IF resolved /\ j < i /\ rest[j].kind \in EstablishKinds
                           THEN [rest[j] EXCEPT !.preempted = TRUE] ELSE rest[j]]
       /\ UNCHANGED <<storage, isLoading, boot, calls>>
       /\ last' = Some(Returned(ops[i], Void))

----------------------------------------------------------------------------
(* A push registration settles, notifications.ts:6-53 and                  *)
(* AuthContext.tsx:206-212.  The awaits inside                             *)
(* registerForPushNotificationsAsync read and write nothing of the         *)
(* session, so the function is taken in one step, when its promise         *)
(* settles; the .then callback runs with it.                               *)

\* the pending registrations without the r-th
WithoutReg(r) == [j \in 1..(Len(regs) - 1) |-> IF j < r THEN regs[j] ELSE regs[j + 1]]

\* the promise of a pending registration settles: resolved with a token the
\* callback calls api.updatePushToken(token), which sends the token under
\* whatever id is bound at that moment; resolved without one the callback
\* does nothing; rejected, the callback does not run and nothing handles
\* the rejection.  `last` keeps the call of api.updatePushToken, with the
\* id of the user the registration was started for.
pushRegistrationSettles ==
    \E r \in DOMAIN regs, settled \in RegistrationOutcomes :
       /\ regs' = WithoutReg(r)
       /\ last' = IF updatePushTokenCalled(settled)
                  THEN Some([kind |-> "api.updatePushToken",
                             userId |-> regs[r].userId,
                             token |-> settled.value])
                  ELSE None
       /\ UNCHANGED <<storage, user, boundId, isLoading, boot, calls, ops>>

\* the same step with everything about the run kept in `last`: what the
\* registration found, the calls it made, how it settled, whether the
\* callback uploaded the token and whether a rejection was left unhandled
pushRegistrationObserved ==
    \E r \in DOMAIN regs, env \in AllEnvs :
       LET run == registrationRun(env)
       IN  /\ regs' = WithoutReg(r)
           /\ last' = Some([kind |-> "registerForPushNotificationsAsync",
                            userId |-> regs[r].userId,
                            env |-> env,
                            calls |-> run.calls,
                            settled |-> run.settled,
                            uploaded |-> updatePushTokenCalled(run.settled),
                            unhandled |-> unhandledRejection(run.settled)])
           /\ UNCHANGED <<storage, user, boundId, isLoading, boot, calls, ops>>

----------------------------------------------------------------------------
(* The specification.                                                      *)

\* the first render: useState(null), useState(true), nothing bound yet, and
\* the mount effect has started loadStoredUser; the key holds whatever an
\* earlier run left there
Init ==
    /\ storage \in StoredValues
    /\ user = None
    /\ boundId = Null
    /\ isLoading = TRUE
    /\ boot = [pc |-> "getItem", read |-> NotRead, overlap |-> {}]
    /\ calls = 0
    /\ ops = <<>>
    /\ regs = <<>>
    /\ last = None

Next ==
    \/ getItemAsync
    \/ loadStoredUserResume
    \/ signInCall
    \/ signInWithGoogleCall
    \/ signUpCall
    \/ forgotPasswordCall
    \/ signOutCall
    \/ hasPlayServices
    \/ GoogleSigninSignIn
    \/ signInPost
    \/ signInWithGooglePost
    \/ signUpPost
    \/ setItemAsync
    \/ EstablishResume
    \/ EstablishCatch
    \/ forgotPasswordPost
    \/ deleteItemAsync
    \/ signOutResume
    \/ pushRegistrationSettles

Spec == Init /\ [][Next]_vars

\* a lifetime in which no public operation is called: bootstrap, and the
\* registration it starts when it restores a record, observed in full
NextRegistration ==
    \/ getItemAsync
    \/ loadStoredUserResume
    \/ pushRegistrationObserved

SpecRegistration == Init /\ [][NextRegistration]_vars

\* a lifetime in which callers pass any email, typed or not, to signIn and
\* signUp and press the reset screen's button, and the requests settle
NextValidation ==
    \/ getItemAsync
    \/ loadStoredUserResume
    \/ signInAnyEmail
    \/ signUpAnyEmail
    \/ handleResetPassword
    \/ signInPost
    \/ signUpPost
    \/ forgotPasswordPost

SpecValidation == Init /\ [][NextValidation]_vars

----------------------------------------------------------------------------
(* Vocabulary of the properties.                                           *)

\* the call that returned in the step just taken
Ret == The(last)
JustReturned(kinds) == IsSome(last) /\ Ret.kind \in kinds

\* nothing else was in flight at any time during the call
Clean(call) == call.overlap = {}

\* the id of the stored record, Null when the key holds no record
StoredId ==
    IF IsSome(storage) /\ ~ParseThrows(The(storage)) THEN Prop(The(storage), "id")
    ELSE Null

\* what a cold start ends with when the key holds `stored`
ColdStart(stored) == loadStoredUser([rejected |-> FALSE, value |-> stored], Clear)

----------------------------------------------------------------------------
(* C1 - C10                                                                *)

\* C1: in every reachable state the id bound on the API client is the id of
\* the in-memory user, and null when there is no user.
C1_BoundIdIsUserId == boundId = (IF IsSome(user) THEN The(user).id ELSE Null)

\* C1 witness: a signOut whose delete has landed has not yet cleared the
\* binder, and the bound id is still that of the user in memory.
C1_Witness ==
    \E i \in DOMAIN ops :
       /\ ops[i].kind = "signOut" /\ ops[i].pc = "deleteItemResolved"
       /\ user = Some(UserB) /\ boundId = UserB.id

\* C2 as claimed: once bootstrap has resolved, the key holds a record if and
\* only if the in-memory user is non-null.
C2_RecordIffUser == ~isLoading => (IsSome(storage) <=> IsSome(user))

\* C3: an establish call whose storage write is rejected returns a failure,
\* and none of its steps has changed the user, the bound id or the stored
\* record; run alone, it leaves the user it found.
C3_RejectedWriteChangesNothing ==
    (JustReturned(EstablishKinds) /\ Ret.at = "setItemRejected") =>
        /\ Ret.result.success = FALSE
        /\ Ret.result.error # Undefined
        /\ Ret.changed = {}
        /\ Clean(Ret) => user = Ret.preUser

\* C3 witness: a signed-in user, and a sign-up that has just returned from
\* a rejected write.
C3_Witness ==
    /\ JustReturned({"signUp"}) /\ Ret.at = "setItemRejected"
    /\ Clean(Ret) /\ user = Some(UserA)

\* C4 as claimed: an establish call made while another is in flight is
\* turned away at once, so the later of two establish calls in flight
\* together never comes to write the storage.
C4_SingleFlight ==
    \A i, j \in DOMAIN ops :
       (i < j /\ ops[i].kind \in EstablishKinds /\ ops[j].kind \in EstablishKinds)
       => ops[j].pc \notin {"setItem", "setItemResolved", "setItemRejected"}

\* C5 as claimed: when a signOut called during an establish call has cleared
\* the session before that call returns, then once both have returned the
\* record is absent, the bound id is null and the user is null.
C5_SignOutPreempts ==
    (JustReturned(EstablishKinds) /\ Ret.preempted /\ Ret.overlap = {"signOut"}
        /\ ops = <<>>)
    => (storage = None /\ boundId = Null /\ user = None)

\* C6 as claimed: after a signOut made while a user is signed in, the user
\* is null and the bound id is null, whatever the storage delete did.
C6_SignOutAlwaysClears ==
    (JustReturned({"signOut"}) /\ Clean(Ret) /\ IsSome(Ret.preUser))
    => (user = None /\ boundId = Null)

\* C7 as claimed: during a switch the stored record and the bound id never
\* refer to different users.
C7_NoMixtureOnSwitch ==
    \A i \in DOMAIN ops :
       (ops[i].kind \in EstablishKinds /\ Clean(ops[i]) /\ IsSome(ops[i].preUser))
       => ~(StoredId # Null /\ boundId # Null /\ StoredId # boundId)

\* C8: a signIn that succeeds as B while A is signed in, with nothing else
\* in flight, ends with the stored record, the bound id and the user all B.
C8_SwitchLeavesOnlyNewUser ==
    (JustReturned({"signIn"}) /\ Ret.result.success /\ Clean(Ret) /\ IsSome(Ret.preUser))
    => LET B == The(Ret.userData)
       IN  /\ user = Some(B)
           /\ boundId = B.id
           /\ StoredId = B.id
           /\ storage = Some(JSONstringify(B))

\* C8 witness: A was signed in, signIn has just returned success as B.
C8_Witness ==
    /\ JustReturned({"signIn"}) /\ Ret.result.success /\ Clean(Ret)
    /\ Ret.preUser = Some(UserA) /\ Ret.userData = Some(UserB)

\* a cold start on `stored` gives session X: X's id, name and email as the
\* user, and X's id bound
Restores(stored, X) ==
    LET cold == ColdStart(stored)
    IN  /\ IsSome(cold.user)
        /\ The(cold.user).id = X.id
        /\ The(cold.user).name = X.name
        /\ The(cold.user).email = X.email
        /\ cold.boundId = X.id

\* C9: for every session X an establish call sets up, a cold start on the
\* storage that call leaves restores X (the same id, name and email as user,
\* X's id bound): on the storage as its write left it, under any
\* interleaving, and on the storage at its return when nothing else was in
\* flight.
C9_RoundTrip ==
    /\ \A i \in DOMAIN ops :
          ops[i].pc = "setItemResolved" => Restores(ops[i].wrote, The(ops[i].userData))
    /\ (JustReturned(EstablishKinds) /\ Ret.result.success /\ Clean(Ret))
          => Restores(storage, The(Ret.userData))

\* C9 witness: a sign-up has just returned success.
C9_Witness == JustReturned({"signUp"}) /\ Ret.result.success /\ Clean(Ret)

\* C10: bootstrap run alone leaves the storage as it was; on a stored record
\* it ends with that record as user and its id bound; on a missing or
\* unparsable value, or a rejected read, it ends with no user and no bound id.
C10_Bootstrap ==
    (JustReturned({"loadStoredUser"}) /\ Clean(Ret)) =>
        LET read == The(Ret.read)
        IN  /\ "storage" \notin Ret.changed
            /\ \A u \in ServerUsers :
                  (~read.rejected /\ read.value = Some(JSONstringify(u)))
                  => (user = Some(u) /\ boundId = u.id)
            /\ (read.rejected \/ read.value \in {None, Some(Garbage)})
                  => (user = None /\ boundId = Null)

\* C10 witness: bootstrap has just ended on the stored record of A.
C10_Witness ==
    /\ JustReturned({"loadStoredUser"}) /\ Clean(Ret)
    /\ user = Some(UserA) /\ storage = Some(JSONstringify(UserA))

\* C10 second case reached: bootstrap has just ended on an unparsable value.
C10_GarbageReached ==
    /\ JustReturned({"loadStoredUser"}) /\ Clean(Ret)
    /\ The(Ret.read).value = Some(Garbage)

----------------------------------------------------------------------------
(* C11 - C20                                                               *)

\* the public operations of the context value, AuthContext.tsx:218
PublicKinds == EstablishKinds \cup {"signOut", "forgotPassword"}

\* C11 as claimed: no public operation takes effect on the session while
\* isLoading is still true: as long as bootstrap has not resolved, no step of
\* a call of signIn, signInWithGoogle, signUp, signOut or forgotPassword has
\* changed the user, the bound id or the stored record.
C11_NoEffectWhileLoading ==
    isLoading =>
        /\ \A i \in DOMAIN ops : ops[i].changed = {}
        /\ JustReturned(PublicKinds) => Ret.changed = {}

\* C12 as claimed: isLoading is true exactly until bootstrap has resolved,
\* the user is null as long as isLoading is true, and a cold start that read
\* no stored record ends with isLoading false and user null.
C12_LoadingAndUser ==
    /\ isLoading <=> boot.pc # "done"
    /\ isLoading => user = None
    /\ (JustReturned({"loadStoredUser"})
           /\ The(Ret.read) = [rejected |-> FALSE, value |-> None])
       => (~isLoading /\ user = None)

\* C13: whatever the request, the Google SDK or the storage write rejects
\* with, a call of signIn, signInWithGoogle, signUp or forgotPassword
\* resolves to a result value: {success: true} without an error, or
\* {success: false} with an error message; its promise never rejects.
C13_AlwaysAResult ==
    JustReturned(PublicKinds \ {"signOut"}) =>
        /\ DOMAIN Ret.result = {"success", "error"}
        /\ Ret.result.success \in BOOLEAN
        /\ Ret.result.success => Ret.result.error = Undefined
        /\ ~Ret.result.success => Ret.result.error # Undefined
        /\ IsSome(Ret.thrown) => ~Ret.result.success

\* C13 witness: the request of forgotPassword was rejected without a
\* response, and the call has returned.
C13_Witness ==
    /\ JustReturned({"forgotPassword"})
    /\ Ret.thrown = Some(Thrown(Undefined, Undefined))

\* C14 as claimed: after each signOut, called with a user signed in or with
\* none, the user is null, the bound id is null and the key holds no record.
C14_SignOutLeavesAnonymous ==
    (JustReturned({"signOut"}) /\ Clean(Ret))
    => (user = None /\ boundId = Null /\ storage = None)

\* C15: a signIn whose request is answered with {user: {id, name, email}},
\* nothing else being in flight, returns {success: true}; the user is
\* exactly {id, name, email}, the key holds exactly the JSON text of that
\* object, and the bound id is that id.
C15_SignInEstablishes ==
    (JustReturned({"signIn"}) /\ Clean(Ret) /\ Ret.at = "setItemResolved") =>
        /\ Ret.result = AuthResult(TRUE, Undefined)
        /\ \E u \in ServerUsers :
              /\ Ret.userData = Some(u)
              /\ user = Some([id |-> u.id, name |-> u.name, email |-> u.email])
              /\ storage = Some([wellFormed |-> TRUE,
                                 members |-> <<Member("id", u.id),
                                               Member("name", u.name),
                                               Member("email", u.email)>>])
              /\ boundId = u.id

\* C15 witness: nobody was signed in, and signIn has just returned from a
\* resolved write of A's record.
C15_Witness ==
    /\ JustReturned({"signIn"}) /\ Clean(Ret) /\ Ret.at = "setItemResolved"
    /\ Ret.preUser = None /\ Ret.userData = Some(UserA)

\* C16: when the request of signIn, of the Google exchange or of signUp is
\* rejected with a message from the server, the call returns {success:
\* false} with that message as error; and whenever the request does not
\* lead to a session, none of the call's steps has changed the user, the
\* bound id or the stored record, and run alone it leaves the user it found.
C16_DeclinedLeavesSession ==
    (JustReturned(EstablishKinds) /\ Ret.at = "post") =>
        /\ ~Ret.result.success
        /\ (IsSome(Ret.thrown) /\ The(Ret.thrown).message # Undefined)
              => Ret.result = AuthResult(FALSE, The(Ret.thrown).message)
        /\ Ret.changed = {}
        /\ Clean(Ret) => user = Ret.preUser

\* C16 witness: A is signed in, and a signUp has just returned from a request
\* the server rejected with a message.
C16_Witness ==
    /\ JustReturned({"signUp"}) /\ Ret.at = "post" /\ Clean(Ret)
    /\ Ret.thrown = Some(Thrown(Undefined, ServerMessage))
    /\ user = Some(UserA)

\* C16 second case reached: nobody is signed in, and a signIn has just
\* returned from a request the server rejected with a message.
C16_AnonymousReached ==
    /\ JustReturned({"signIn"}) /\ Ret.at = "post" /\ Clean(Ret)
    /\ Ret.thrown = Some(Thrown(Undefined, ServerMessage))
    /\ user = None

\* C17: when the Google SDK rejects, signInWithGoogle returns "Sign in
\* cancelled" for a cancellation, "Sign in in progress" and "Play services
\* not available" for those two codes, and a failure with some message for
\* everything else that is thrown; in each case none of the call's steps has
\* changed the user, the bound id or the stored record, and run alone it
\* leaves the user it found.
C17_GoogleOutcomes ==
    (JustReturned({"signInWithGoogle"}) /\ IsSome(Ret.thrown)) =>
        LET error == The(Ret.thrown)
        IN  /\ error.code = SIGN_IN_CANCELLED
                  => Ret.result = AuthResult(FALSE, "Sign in cancelled")
            /\ error.code = IN_PROGRESS
                  => Ret.result = AuthResult(FALSE, "Sign in in progress")
            /\ error.code = PLAY_SERVICES_NOT_AVAILABLE
                  => Ret.result = AuthResult(FALSE, "Play services not available")
            /\ (error.code = Undefined /\ error.message = Undefined)
                  => Ret.result = AuthResult(FALSE, "Google sign-in failed")
            /\ ~Ret.result.success /\ Ret.result.error # Undefined
            /\ Ret.changed = {}
            /\ Clean(Ret) => user = Ret.preUser

\* C17 witness: A is signed in, and the user has just cancelled the Google
\* sign-in dialog.
C17_Witness ==
    /\ JustReturned({"signInWithGoogle"}) /\ Ret.at = "GoogleSignin.signIn"
    /\ Ret.thrown = Some(Thrown(SIGN_IN_CANCELLED, Undefined))
    /\ Clean(Ret) /\ user = Some(UserA)

\* C18: forgotPassword returns in every state it is called in, while
\* bootstrap is running, with nobody signed in and with a user signed in;
\* whether it succeeds or fails, none of its steps has changed the user, the
\* bound id or the stored record, and run alone it leaves the user it found.
C18_ForgotPasswordFrame ==
    JustReturned({"forgotPassword"}) =>
        /\ Ret.changed = {}
        /\ Clean(Ret) => user = Ret.preUser

\* C18 witness: forgotPassword has just succeeded while bootstrap was still
\* running.
C18_Witness ==
    /\ JustReturned({"forgotPassword"}) /\ Ret.result.success
    /\ isLoading

\* C18 other states reached: forgotPassword has just failed with A signed
\* in, and has just succeeded with nobody signed in.
C18_AuthenticatedReached ==
    /\ JustReturned({"forgotPassword"}) /\ ~Ret.result.success
    /\ Clean(Ret) /\ user = Some(UserA)

C18_AnonymousReached ==
    /\ JustReturned({"forgotPassword"}) /\ Ret.result.success
    /\ Clean(Ret) /\ user = None

\* C19 as claimed: a push token is never uploaded after the session that
\* started the registration has been cleared or replaced: whenever
\* api.updatePushToken is called, the bound id is still the id of the user
\* the registration was started for.
C19_NoUploadAfterSessionGone ==
    JustReturned({"api.updatePushToken"}) => boundId = Ret.userId

\* C20: no step starts more than one push registration; a step starts one
\* only when an establish call succeeds or bootstrap restores a record, and
\* then for the user it sets; a signOut that returns starts none; and when
\* a registration settles, with or without a token or rejected, it leaves
\* the pending ones and no new one is started.
C20_OneAttemptPerTransition ==
    [][ /\ Len(regs') <= Len(regs) + 1
        /\ Len(regs') > Len(regs) =>
              /\ (JustReturned(EstablishKinds \cup {"loadStoredUser"}))'
              /\ (Ret.result.success)'
              /\ IsSome(user')
              /\ regs' = Append(regs, [userId |-> The(user').id])
        /\ (JustReturned({"signOut"}))' => regs' = regs
        /\ (ops' = ops /\ boot' = boot) => \E r \in DOMAIN regs : regs' = WithoutReg(r)
      ]_vars

\* C20 witness: an establish call has just succeeded and started one
\* registration, while the one bootstrap started is still pending.
C20_Witness ==
    /\ JustReturned(EstablishKinds) /\ Ret.result.success
    /\ Ret.started = 1 /\ Len(regs) = 2

\* C20 second case reached: a signOut has just cleared the session of A and
\* no registration is pending.
C20_SignOutReached ==
    /\ JustReturned({"signOut"}) /\ Ret.preUser = Some(UserA) /\ user = None
    /\ Ret.started = 0 /\ regs = <<>>

----------------------------------------------------------------------------
(* C21 - C30                                                               *)

\* C21 as claimed: a failure at any step of a push registration (channel
\* setup, permission query or request, token issuance, upload) is caught and
\* logged: no registration ends in a rejection that nothing handles.
C21_NoUnhandledRejection ==
    JustReturned({"registerForPushNotificationsAsync"}) => ~Ret.unhandled

\* the registration that has just settled made the call `c`
Called(c) == \E i \in DOMAIN Ret.calls : Ret.calls[i] = c

\* C22: a registration calls requestPermissionsAsync only when the existing
\* status is not 'granted'; it neither calls getExpoPushTokenAsync nor
\* resolves to a token when the runtime is not a physical device, when the
\* final permission status is not 'granted', or when no projectId is
\* configured; and api.updatePushToken is called exactly when the
\* registration resolved to a token.
C22_PermissionAndToken ==
    JustReturned({"registerForPushNotificationsAsync"}) =>
        LET env == Ret.env
            finalKnown == /\ env.existingStatus # "rejects"
                          /\ (env.existingStatus = "granted"
                                 \/ env.requestedStatus # "rejects")
            finalStatus == IF env.existingStatus = "granted" THEN "granted"
                           ELSE env.requestedStatus
            noProjectId == /\ env.expoConfigProjectId \in {Undefined, ""}
                           /\ env.easConfigProjectId = Undefined
            token == ~Ret.settled.rejected /\ Ret.settled.value # Undefined
        IN  /\ Called("requestPermissionsAsync") => env.existingStatus # "granted"
            /\ (~env.isDevice \/ (finalKnown /\ finalStatus # "granted") \/ noProjectId)
                  => (~Called("getExpoPushTokenAsync") /\ ~token)
            /\ Ret.uploaded <=> token

\* C22 witness: the permission was undetermined, was requested and granted,
\* and the token the registration resolved to has been uploaded.
C22_Witness ==
    /\ JustReturned({"registerForPushNotificationsAsync"})
    /\ Ret.env.existingStatus = "undetermined"
    /\ Called("requestPermissionsAsync") /\ Called("getExpoPushTokenAsync")
    /\ Ret.uploaded

\* C22 other cases reached: not a physical device; permission denied on
\* request; no projectId configured.
C22_NoDeviceReached ==
    /\ JustReturned({"registerForPushNotificationsAsync"})
    /\ ~Ret.env.isDevice /\ ~Ret.settled.rejected /\ ~Ret.uploaded

C22_DeniedReached ==
    /\ JustReturned({"registerForPushNotificationsAsync"})
    /\ Ret.env.isDevice /\ Ret.env.existingStatus = "denied"
    /\ Ret.env.requestedStatus = "denied" /\ ~Ret.uploaded

C22_NoProjectIdReached ==
    /\ JustReturned({"registerForPushNotificationsAsync"})
    /\ Ret.env.isDevice /\ Ret.env.existingStatus = "granted"
    /\ Ret.env.expoConfigProjectId = Undefined
    /\ Ret.env.easConfigProjectId = Undefined
    /\ ~Ret.settled.rejected /\ ~Ret.uploaded

\* C23: signInWithGoogle sends the exchange request only after
\* GoogleSignin.hasPlayServices and then GoogleSignin.signIn have resolved, in
\* that order, and with a non-empty idToken; when GoogleSignin.signIn resolves
\* without an idToken the call returns a failure, with no request sent and
\* storage, user and bound id untouched by it.
C23_GoogleStepOrder ==
    /\ \A i \in DOMAIN ops :
          (ops[i].kind = "signInWithGoogle"
              /\ ops[i].pc \notin {"hasPlayServices", "GoogleSignin.signIn"})
          => /\ Len(ops[i].awaited) >= 2
             /\ ops[i].awaited[1] = "hasPlayServices"
             /\ ops[i].awaited[2] = "GoogleSignin.signIn"
             /\ IsSome(ops[i].form)
             /\ The(ops[i].form) \notin {Undefined, ""}
    /\ (JustReturned({"signInWithGoogle"}) /\ Ret.at = "GoogleSignin.signIn"
           /\ ~IsSome(Ret.thrown))
          => /\ Ret.result = AuthResult(FALSE, "Failed to get ID token")
             /\ Ret.changed = {}
    /\ (JustReturned({"signInWithGoogle"}) /\ Ret.result.success)
          => Ret.at = "setItemResolved"

\* C23 witness: GoogleSignin.signIn resolved without an idToken and the call
\* has returned its failure.
C23_Witness ==
    /\ JustReturned({"signInWithGoogle"}) /\ Ret.at = "GoogleSignin.signIn"
    /\ ~IsSome(Ret.thrown) /\ ~Ret.result.success

\* C23 other case reached: the exchange request is pending with a token.
C23_ExchangeReached ==
    \E i \in DOMAIN ops :
       /\ ops[i].kind = "signInWithGoogle" /\ ops[i].pc = "post"
       /\ ops[i].form = Some("idToken")

\* C24: a signUp run alone that returns after its resolved write returns
\* {success: true}, and the user, the stored record and the bound id are
\* {id: the userId of the response, name and email: those submitted}; a
\* response without userId gives the failure 'Registration failed' and none
\* of the call's steps has changed storage, user or bound id.
C24_SignUpEstablishes ==
    /\ (JustReturned({"signUp"}) /\ Clean(Ret) /\ Ret.at = "setItemResolved") =>
          /\ Ret.result = AuthResult(TRUE, Undefined)
          /\ \E id \in ServerUserIds :
                LET data == The(Ret.form)
                    session == [id |-> id, name |-> data.name, email |-> data.email]
                IN  /\ Ret.userData = Some(session)
                    /\ user = Some(session)
                    /\ storage = Some([wellFormed |-> TRUE,
                                       members |-> <<Member("id", id),
                                                     Member("name", data.name),
                                                     Member("email", data.email)>>])
                    /\ boundId = id
    /\ (JustReturned({"signUp"}) /\ Ret.at = "post" /\ ~IsSome(Ret.thrown)) =>
          /\ Ret.result = AuthResult(FALSE, "Registration failed")
          /\ Ret.changed = {}
          /\ Clean(Ret) => user = Ret.preUser

\* C24 witness: nobody was signed in, and signUp has just returned from the
\* resolved write of the record built from the response's userId and the
\* submitted name and email.
C24_Witness ==
    /\ JustReturned({"signUp"}) /\ Clean(Ret) /\ Ret.at = "setItemResolved"
    /\ Ret.preUser = None /\ Ret.form \in {Some(f) : f \in SignUpForms}
    /\ user = Some(UserB)

\* C24 other case reached: the response carried no userId.
C24_NoUserIdReached ==
    /\ JustReturned({"signUp"}) /\ Ret.at = "post" /\ ~IsSome(Ret.thrown)
    /\ ~Ret.result.success

\* C25: forgotPassword returns {success: true} exactly when its request
\* resolved, whatever body the response carries, and returns {success:
\* false} with an error exactly when the request was rejected.
C25_ForgotPasswordResult ==
    JustReturned({"forgotPassword"}) =>
        /\ Ret.result.success <=> (IsSome(Ret.body) /\ ~IsSome(Ret.thrown))
        /\ IsSome(Ret.body) => Ret.result = AuthResult(TRUE, Undefined)
        /\ ~Ret.result.success <=> IsSome(Ret.thrown)
        /\ IsSome(Ret.thrown) =>
              /\ ~IsSome(Ret.body)
              /\ Ret.result.error # Undefined

\* C25 witness: the request resolved with a body that reports an error, and
\* forgotPassword has returned {success: true}.
C25_Witness ==
    /\ JustReturned({"forgotPassword"})
    /\ Ret.body = Some([error |-> "No such account"])
    /\ Ret.result.success

\* C25 other case reached: the request was rejected.
C25_RejectedReached ==
    /\ JustReturned({"forgotPassword"}) /\ IsSome(Ret.thrown)
    /\ ~Ret.result.success

\* C26 as claimed: signIn, signUp and forgotPassword called with an empty
\* email send no request: no request of theirs is pending with an empty
\* email.
C26_NoRequestForEmptyEmail ==
    \A i \in DOMAIN ops :
       (ops[i].kind \in {"signIn", "signUp", "forgotPassword"} /\ ops[i].pc = "post")
       => The(ops[i].form).email # ""

\* C27 as claimed: when the last of a set of overlapping signIn,
\* signInWithGoogle and signUp calls has returned from its resolved write,
\* with bootstrap over before the first call and no signOut among them, the
\* stored record's id is the id of the in-memory user.
C27_QuiescentAgreement ==
    (/\ ops = <<>> /\ boot.pc = "done" /\ boot.overlap = {}
     /\ JustReturned(EstablishKinds) /\ Ret.at = "setItemResolved"
     /\ "signOut" \notin Ret.overlap)
    => (IsSome(user) /\ StoredId = The(user).id)

\* C28 as claimed: when an establish call or a signOut has completed between
\* the storage read of loadStoredUser and its continuation (the key no
\* longer holds what was read, and no call is in flight), the continuation
\* leaves the user and the bound id as that call left them.
C28_BootstrapKeepsNewerSession ==
    (/\ JustReturned({"loadStoredUser"}) /\ ops = <<>>
     /\ Ret.overlap # {}
     /\ ~The(Ret.read).rejected /\ The(Ret.read).value # storage)
    => Ret.changed = {}

\* C29: bootstrap terminates in every outcome of the storage read: once the
\* read has settled, the continuation of loadStoredUser can always run,
\* whatever else is in flight; when it has run, isLoading is false, whether
\* a record was found, none was found, the record did not parse or the read
\* was rejected; and isLoading stays false from then on.
C29_BootstrapTerminates ==
    /\ boot.pc = "resume" => ENABLED loadStoredUserResume
    /\ JustReturned({"loadStoredUser"}) => (boot.pc = "done" /\ ~isLoading)
    /\ boot.pc = "done" => ~isLoading

\* C29 witness: the storage read was rejected, and loadStoredUser has
\* returned with isLoading false.
C29_Witness ==
    /\ JustReturned({"loadStoredUser"}) /\ The(Ret.read).rejected
    /\ ~isLoading

\* C29 other outcomes reached: a record found and restored, no record, and
\* a record that does not parse.
C29_FoundReached ==
    /\ JustReturned({"loadStoredUser"}) /\ ~The(Ret.read).rejected
    /\ loadStoredUserSetsUser(The(Ret.read)) /\ user = Some(UserA)

C29_NoRecordReached ==
    /\ JustReturned({"loadStoredUser"}) /\ ~The(Ret.read).rejected
    /\ The(Ret.read).value = None

C29_UnparsableReached ==
    /\ JustReturned({"loadStoredUser"}) /\ ~The(Ret.read).rejected
    /\ IsSome(The(Ret.read).value) /\ ParseThrows(The(The(Ret.read).value))

\* C30: a signOut run alone ends in one of two ways: the key is deleted, the
\* bound id is null and the user is null; or, the delete having been
\* rejected, none of its steps has changed the stored record, the bound id
\* or the user, and the user is the one it found.  The bound id and the user
\* are never cleared while the record remains.
C30_SignOutAllOrNothing ==
    (JustReturned({"signOut"}) /\ Clean(Ret)) =>
        \/ (storage = None /\ boundId = Null /\ user = None
               /\ Ret.at = "deleteItemResolved")
        \/ (Ret.at = "deleteItemRejected" /\ Ret.changed = {}
               /\ user = Ret.preUser
               /\ boundId = (IF IsSome(user) THEN The(user).id ELSE Null))

\* C30 witness: A was signed in, the delete was rejected, and signOut has
\* returned with A's record, bound id and user all still there.
C30_Witness ==
    /\ JustReturned({"signOut"}) /\ Clean(Ret)
    /\ Ret.at = "deleteItemRejected"
    /\ user = Some(UserA) /\ boundId = UserA.id /\ StoredId = UserA.id

\* C30 other case reached: A was signed in and everything is cleared.
C30_ClearedReached ==
    /\ JustReturned({"signOut"}) /\ Clean(Ret)
    /\ Ret.preUser = Some(UserA)
    /\ storage = None /\ boundId = Null /\ user = None

====
